---- MODULE Spec2Model ----
(***************************************************************************)
(* Model of train.py of vocal-remover: the corpus splitter                 *)
(* (train_val_split), the inner-epoch trainer and validator, and the       *)
(* training loop of main().                                                *)
(*                                                                         *)
(* Abstractions.  Floats are modelled by integers: losses are non-negative *)
(* finite integers, +infinity is the value Inf above every loss, a rate    *)
(* (validation_rate, oracle_rate, lr_decay) is a fraction [num, den] and a *)
(* product with a rate is rounded down.  A file is [stem, ext]; a path is  *)
(* [dir, stem, ext]; a patch is a tag saying where it was built.           *)
(***************************************************************************)
EXTENDS Integers, Sequences, FiniteSets, TLC

VARIABLES
    mix_dir,        \* listing of the mixture directory (set of file names)
    inst_dir,       \* listing of the instrumental directory
    args,           \* parsed command line
    env,            \* ranges of the values the opaque model can produce
    pc,             \* position of main()
    filelist,       \* train_val_split: the shuffled pair list
    train_filelist,
    val_filelist,
    val_file,       \* val_<timestamp>.json
    epoch,
    inner_epoch,
    X_train,
    y_train,
    oracle_X,
    oracle_y,
    instance_loss,
    model,          \* model parameters (number of the snapshot)
    alpha,          \* optimizer.alpha, the learning rate
    best_count,
    best_loss,
    train_loss,
    valid_loss,
    log,
    log_file,       \* log_<timestamp>.npy
    models,         \* models/model_iter<epoch>.npz : epoch -> parameters
    calls,          \* history: per-instance losses of each train_inner_epoch call of this epoch
    wrote,          \* history: one entry per checkpoint decision, TRUE when it saved
    decays,         \* history: epoch index of each learning-rate decay
    decayed,        \* history: one entry per learning-rate decision, TRUE when it decayed
    n_train,        \* history: number of completed train_inner_epoch calls
    n_valid,        \* history: number of completed valid_inner_epoch calls
    n_oracle        \* history: number of get_oracle_data calls

vars == <<mix_dir, inst_dir, args, env, pc, filelist, train_filelist, val_filelist,
          val_file, epoch, inner_epoch, X_train, y_train, oracle_X, oracle_y, instance_loss,
          model, alpha, best_count, best_loss, train_loss, valid_loss, log, log_file,
          models, calls, wrote, decays, decayed, n_train, n_valid, n_oracle>>

splitVars == <<filelist, train_filelist, val_filelist, val_file>>
loopVars == <<epoch, inner_epoch, X_train, y_train, oracle_X, oracle_y, instance_loss,
              model, alpha, best_count, best_loss, train_loss, valid_loss, log, log_file,
              models, calls, wrote, decays, decayed, n_train, n_valid, n_oracle>>

----------------------------------------------------------------------------
(* Bounds *)

MaxFiles == 3       \* files per directory
MaxManifest == 2    \* entries of a validation manifest
RateDen == 4        \* validation rates are k/RateDen

\* an optional value: None, or Some(v)
None == <<>>
Some(v) == <<v>>
The(o) == o[1]

Min(a, b) == IF a < b THEN a ELSE b
Max(a, b) == IF a > b THEN a ELSE b

Range(s) == {s[i] : i \in 1..Len(s)}

\* the permutations of 1..n: random.shuffle / np.random.permutation draw one of them
Permutations_(n) == {p \in [1..n -> 1..n] : \A i, j \in 1..n : i # j => p[i] # p[j]}

----------------------------------------------------------------------------
(* train_val_split *)

input_exts == {".wav", ".m4a", ".3gp", ".oma", ".mp3", ".mp4"}

\* extensions in the order of their strings
ExtOrder == <<".3gp", ".m4a", ".mp3", ".mp4", ".oma", ".txt", ".wav">>
ExtRank(e) == CHOOSE i \in 1..Len(ExtOrder) : ExtOrder[i] = e

\* os.path.join(dir, fname)
join(dir, fname) == [dir |-> dir, stem |-> fname.stem, ext |-> fname.ext]

\* order of two paths of one directory (stems are single characters)
PathLess(p, q) ==
    \/ p.stem < q.stem
    \/ p.stem = q.stem /\ ExtRank(p.ext) < ExtRank(q.ext)

RECURSIVE sorted(_)
sorted(S) ==
    IF S = {} THEN <<>>
    ELSE LET m == CHOOSE x \in S : \A z \in S \ {x} : PathLess(x, z)
         IN <<m>> \o sorted(S \ {m})

\* sorted([join(dir, fname) for fname in os.listdir(dir) if splitext(fname)[1] in input_exts])
AudioList(dir, listing) ==
    sorted({join(dir, fname) : fname \in {f \in listing : f.ext \in input_exts}})

\* list(zip(X_list, y_list)): stops at the shorter list
zip(X_list, y_list) ==
    [i \in 1..Min(Len(X_list), Len(y_list)) |-> <<X_list[i], y_list[i]>>]

\* Python slice s[start:stop] with its treatment of negative indices
PyIndex(i, n) == IF i < 0 THEN Max(i + n, 0) ELSE Min(i, n)

PySlice_short(s, start, stop) ==
    LET n == Len(s)
        lo == PyIndex(start, n)
        hi == PyIndex(stop - 1, n)
    IN IF lo >= hi THEN <<>> ELSE SubSeq(s, lo + 1, hi)

PySlice(s, start, stop) ==
    LET n == Len(s)
        lo == PyIndex(start, n)
        hi == PyIndex(stop, n)
    IN IF lo >= hi THEN <<>> ELSE SubSeq(s, lo + 1, hi)

\* int(n * rate)
IntTimes(n, rate) == (n * rate.num) \div rate.den

\* [pair for pair in filelist if list(pair) not in val_filelist]
NotIn(fl, vf) ==
    LET F[i \in 0..Len(fl)] ==
            IF i = 0 THEN <<>>
            ELSE IF fl[i] \notin Range(vf) THEN Append(F[i - 1], fl[i]) ELSE F[i - 1]
    IN F[Len(fl)]

\* the shuffled list zip(X_list, y_list), perm being the shuffle drawn
Shuffled(mix, inst, perm) ==
    LET fl == zip(AudioList("mix", mix), AudioList("inst", inst))
    IN [i \in 1..Len(fl) |-> fl[perm[i]]]

train_val_split_nofilter(mix, inst, val_rate, val_filelist_json, perm) ==
    LET fl == Shuffled(mix, inst, perm)
        vf == IF val_filelist_json # None THEN The(val_filelist_json) ELSE <<>>
    IN IF Len(vf) = 0
       THEN LET val_size == IntTimes(Len(fl), val_rate)
            IN [train |-> PySlice(fl, 0, -val_size),
                val |-> PySlice(fl, -val_size, Len(fl))]
       ELSE [train |-> fl, val |-> vf]

train_val_split(mix, inst, val_rate, val_filelist_json, perm) ==
    LET fl == Shuffled(mix, inst, perm)
        vf == IF val_filelist_json # None THEN The(val_filelist_json) ELSE <<>>
    IN IF Len(vf) = 0
       THEN LET val_size == IntTimes(Len(fl), val_rate)
            IN [train |-> PySlice(fl, 0, -val_size),
                val |-> PySlice(fl, -val_size, Len(fl))]
       ELSE [train |-> NotIn(fl, vf),
             val |-> vf]

----------------------------------------------------------------------------
(* Inputs *)

\* the file <stem>.wav or <stem>.mp3
AudioFile(s) == [stem |-> s, ext |-> IF s % 2 = 0 THEN ".mp3" ELSE ".wav"]
OtherFile == [stem |-> 1, ext |-> ".txt"]

\* a directory holding the audio files lo..hi, and possibly a file that is no audio
Listing(lo, hi, other) ==
    {AudioFile(s) : s \in lo..hi} \cup (IF other THEN {OtherFile} ELSE {})

MixListings == {Listing(1, n, o) : n \in 0..MaxFiles, o \in BOOLEAN}
InstListings == {Listing(lo, n, FALSE) : lo \in 1..2, n \in 0..MaxFiles}

ValRates == {[num |-> k, den |-> RateDen] : k \in 0..RateDen}

\* pairs a manifest can name: pairs of some corpus of the model and pairs of none
ManifestPairs ==
    {<<join("mix", AudioFile(i)), join("inst", AudioFile(j))>> :
        i \in 1..MaxFiles, j \in 1..MaxFiles}

SeqsUpTo(S, n) == UNION {[1..k -> S] : k \in 0..n}

\* --val_filelist: no file (None), or the JSON list of the file
Manifests ==
    {None} \cup {Some(m) : m \in {l \in SeqsUpTo(ManifestPairs, MaxManifest) :
                    \A i \in 1..Len(l) : l[i][2].stem - l[i][1].stem \in 0..1}}

\* a command line of the model; the runs below vary its fields.  Learning rates
\* are counted in units of the smallest rate of the model.
BaseArgs ==
    [epoch |-> 0, inner_epoch |-> 1, learning_rate |-> 8, lr_min |-> 1,
     lr_decay |-> [num |-> 1, den |-> 2], lr_decay_interval |-> 1,
     batchsize |-> 1, patches |-> 1,
     validation_rate |-> [num |-> 0, den |-> 1], val_filelist |-> None,
     oracle_rate |-> [num |-> 0, den |-> 1],
     oracle_drop_rate |-> [num |-> 1, den |-> 2], mixup |-> FALSE]

----------------------------------------------------------------------------
(* main(): state before train_val_split is called (train.py:120-137, 154-158) *)

MaxLoss == 2        \* validation losses are 0..MaxLoss
Inf == MaxLoss + 1  \* np.inf

InitRun ==
    /\ pc = "split"
    /\ filelist = <<>>
    /\ train_filelist = <<>>
    /\ val_filelist = <<>>
    /\ val_file = None
    /\ epoch = 0
    /\ inner_epoch = 0
    /\ X_train = <<>>
    /\ y_train = <<>>
    /\ oracle_X = None
    /\ oracle_y = None
    /\ instance_loss = <<>>
    /\ model = 0
    /\ alpha = args.learning_rate
    /\ best_count = 0
    /\ best_loss = Inf
    /\ train_loss = None
    /\ valid_loss = None
    /\ log = <<>>
    /\ log_file = None
    /\ models = [e \in 0..(args.epoch - 1) |-> None]
    /\ calls = <<>>
    /\ wrote = <<>>
    /\ decays = <<>>
    /\ decayed = <<>>
    /\ n_train = 0
    /\ n_valid = 0
    /\ n_oracle = 0

\* train.py:139-146
Split ==
    /\ pc = "split"
    /\ \E perm \in Permutations_(Len(zip(AudioList("mix", mix_dir),
                                         AudioList("inst", inst_dir)))) :
        LET r == train_val_split(mix_dir, inst_dir, args.validation_rate,
                                 args.val_filelist, perm)
        IN /\ filelist' = Shuffled(mix_dir, inst_dir, perm)
           /\ train_filelist' = r.train
           /\ val_filelist' = r.val
           /\ val_file' = Some(r.val)
    /\ pc' = "build"
    /\ UNCHANGED <<mix_dir, inst_dir, args, env>>
    /\ UNCHANGED loopVars

----------------------------------------------------------------------------
(* The splitter on its own: every listing, rate and manifest of the bounds *)

InitSplit ==
    /\ mix_dir \in MixListings
    /\ inst_dir \in InstListings
    /\ args \in {[BaseArgs EXCEPT !.validation_rate = r, !.val_filelist = m] :
                    r \in ValRates, m \in Manifests}
    /\ env = [patch_losses |-> {0}, valid_losses |-> {0}]
    /\ InitRun

NextSplit == Split

SpecSplit == InitSplit /\ [][NextSplit]_vars

Corpus == Range(zip(AudioList("mix", mix_dir), AudioList("inst", inst_dir)))
EqualListings == Len(AudioList("mix", mix_dir)) = Len(AudioList("inst", inst_dir))
Returned == pc # "split"
Manifest == IF args.val_filelist = None THEN <<>> ELSE The(args.val_filelist)
NoManifest == Len(Manifest) = 0
HasManifest == ~NoManifest
ManifestInCorpus == HasManifest /\ Range(Manifest) \subseteq Corpus
NoDuplicates(s) == \A i, j \in 1..Len(s) : i # j => s[i] # s[j]
FirstK(s, k) == SubSeq(s, 1, k)
LastK(s, k) == SubSeq(s, Len(s) - k + 1, Len(s))

IsPartition ==
    /\ Range(train_filelist) \cap Range(val_filelist) = {}
    /\ Range(train_filelist) \cup Range(val_filelist) = Corpus

\* C1 as stated: for equal-length listings, every rate and every manifest, the
\* two lists returned are disjoint and their union is the corpus.
C1_AnyManifest == (Returned /\ EqualListings) => IsPartition

\* C1 amended: for equal-length listings and every rate, with no manifest, an
\* empty one or one that names pairs of the corpus only, the two lists
\* returned are disjoint and their union is the corpus.
C1_Partition ==
    (Returned /\ EqualListings /\ (NoManifest \/ ManifestInCorpus)) => IsPartition

C1_Witness ==
    /\ Returned /\ EqualListings /\ ManifestInCorpus
    /\ Len(train_filelist) >= 2

\* C2: with no manifest (or an empty one) val_list is the last floor(L*val_rate)
\* pairs of the shuffled list and train_list the first L - floor(L*val_rate),
\* the case floor(L*val_rate) = 0 included.
C2_FractionalCut ==
    (Returned /\ NoManifest) =>
        LET L == Len(filelist)
            v == IntTimes(L, args.validation_rate)
        IN /\ val_filelist = LastK(filelist, v)
           /\ train_filelist = FirstK(filelist, L - v)

\* C3: with a non-empty manifest of corpus pairs, val_list is the manifest and
\* train_list holds exactly the corpus pairs that are not in it, each once.
C3_ManifestSplit ==
    (Returned /\ ManifestInCorpus) =>
        /\ val_filelist = Manifest
        /\ Range(train_filelist) = Corpus \ Range(Manifest)
        /\ NoDuplicates(train_filelist)
        /\ Range(train_filelist) \cap Range(val_filelist) = {}

C3_Witness ==
    /\ Returned /\ ManifestInCorpus
    /\ train_filelist # <<>>
    /\ Len(train_filelist) < Len(filelist)

\* C9: when the two listings hold different numbers of audio files,
\* train_val_split ends in a fatal error and returns no split.
C9_MismatchIsFatal == (pc # "split" /\ ~EqualListings) => pc = "fatal"

----------------------------------------------------------------------------
(* The collaborators of lib.dataset, as the specification describes them *)

\* make_validation_set: the validation patches, one per validation pair
X_valid == [i \in 1..Len(val_filelist) |-> [kind |-> "X", pair |-> val_filelist[i]]]

\* make_training_set: `patches` fresh patches per training pair, built anew every
\* epoch.  kind is "X" (mixture) or "y" (instrumental).
make_training_set(kind, files, patches, e) ==
    [i \in 1..(patches * Len(files)) |->
        [kind |-> kind, epoch |-> e, idx |-> i, mixed |-> FALSE]]

\* mixup_generator: every patch becomes a blend
mixup_generator(train) ==
    [i \in 1..Len(train) |-> [train[i] EXCEPT !.mixed = TRUE]]

RECURSIVE SumSeq(_)
SumSeq(s) == IF s = <<>> THEN 0 ELSE s[1] + SumSeq(Tail(s))

\* get_oracle_data: rank the losses in descending order, take the prefix sized by
\* oracle_rate, drop the drop_rate fraction of it; rank is the ranking drawn among
\* equal losses and keep the set of prefix positions that survive the drop.
OracleRankings(loss) ==
    {r \in Permutations_(Len(loss)) :
        \A i, j \in 1..Len(loss) : i < j => loss[r[i]] >= loss[r[j]]}
OraclePrefix(n, oracle_rate) == IntTimes(n, oracle_rate)
OracleKept(n, oracle_rate, drop_rate) ==
    OraclePrefix(n, oracle_rate) - IntTimes(OraclePrefix(n, oracle_rate), drop_rate)
OracleKeeps(n, oracle_rate, drop_rate) ==
    {k \in SUBSET (1..OraclePrefix(n, oracle_rate)) :
        Cardinality(k) = OracleKept(n, oracle_rate, drop_rate)}
RECURSIVE Ascending(_)
Ascending(S) ==
    IF S = {} THEN <<>>
    ELSE LET m == CHOOSE x \in S : \A z \in S : x <= z
         IN <<m>> \o Ascending(S \ {m})
get_oracle_data(X, y, loss, rank, keep) ==
    LET pos == Ascending(keep)
        idx == [j \in 1..Len(pos) |-> rank[pos[j]]]
    IN [X |-> [j \in 1..Len(idx) |-> X[idx[j]]],
        y |-> [j \in 1..Len(idx) |-> y[idx[j]]],
        idx |-> idx]

----------------------------------------------------------------------------
(* train_inner_epoch and valid_inner_epoch *)

\* a[idx] += v of numpy: a[idx[j]] becomes a[idx[j]] + v[j]
FancyAdd_overwrite(a, idx, v) ==
    [i \in 1..Len(a) |->
        IF \E j \in 1..Len(idx) : idx[j] = i
        THEN v[CHOOSE j \in 1..Len(idx) : idx[j] = i]
        ELSE a[i]]

FancyAdd(a, idx, v) ==
    [i \in 1..Len(a) |->
        IF \E j \in 1..Len(idx) : idx[j] = i
        THEN a[i] + v[CHOOSE j \in 1..Len(idx) : idx[j] = i]
        ELSE a[i]]

\* a[idx] = v of numpy
FancySet_append(a, idx, v) == a \o v

FancySet(a, idx, v) ==
    [i \in 1..Len(a) |->
        IF \E j \in 1..Len(idx) : idx[j] = i
        THEN v[CHOOSE j \in 1..Len(idx) : idx[j] = i]
        ELSE a[i]]

\* the batch loop of train_inner_epoch from offset i on; l[p] is the mean absolute
\* error the model gives patch p in this call, perm holds indices from 1
RECURSIVE TrainBatches(_, _, _, _, _, _)
TrainBatches(i, perm, bs, l, acc, sum_loss) ==
    IF i >= Len(perm) THEN [instance_loss |-> acc, sum_loss |-> sum_loss]
    ELSE LET local_perm == PySlice(perm, i, i + bs)
             abs_diff == [j \in 1..Len(local_perm) |-> l[local_perm[j]]]
             loss == SumSeq(abs_diff) \div Len(local_perm)
         IN TrainBatches(i + bs, perm, bs, l,
                         FancyAdd(acc, local_perm, abs_diff),
                         sum_loss + loss * Len(local_perm))

\* train_inner_epoch for a training set of n > 0 patches: the accumulator and the
\* loss returned
train_inner_epoch(n, bs, acc, perm, l) ==
    LET r == TrainBatches(0, perm, bs, l, acc, 0)
    IN [instance_loss |-> r.instance_loss, loss |-> r.sum_loss \div n]

----------------------------------------------------------------------------
(* The decisions of the training loop *)

\* train.py:188
Improved_reversed(loss, best) == loss > best
Improved_tie(loss, best) == loss <= best
Improved(loss, best) == loss < best

\* train.py:187-189: best_count after the checkpoint decision
CountAfter_keep(improved, count) == count + 1
CountAfter(improved, count) == IF improved THEN 0 ELSE count + 1

\* train.py:192: the file of the checkpoint of an epoch, models/model_iter<e>.npz
model_path_prev(e) == Max(e - 1, 0)
model_path(e) == e

\* train.py:195
DecayDue_offbyone(e, count, interval) == e > 1 /\ count >= interval - 1
DecayDue_strict(e, count, interval) == e > 1 /\ count > interval
DecayDue_early(e, count, interval) == e >= 1 /\ count >= interval
DecayDue(e, count, interval) == e > 1 /\ count >= interval

\* train.py:197-198
Decayed_nofloor(lr, lr_decay, lr_min) == (lr * lr_decay.num) \div lr_decay.den
Decayed(lr, lr_decay, lr_min) == Max((lr * lr_decay.num) \div lr_decay.den, lr_min)

\* train.py:201
OracleEnabled_always(oracle_rate) == oracle_rate.num >= 0
OracleEnabled(oracle_rate) == oracle_rate.num > 0

----------------------------------------------------------------------------
(* main(): the training loop, train.py:159-208 *)

inputVars == <<mix_dir, inst_dir, args, env>>

\* an uncaught exception ends the run
Crash ==
    /\ pc' = "crashed"
    /\ UNCHANGED loopVars

\* train.py:159-173: the head of the epoch loop, the training set of the epoch,
\* mixup, oracle injection, the zeroed accumulator
BuildTrainingSet ==
    /\ pc = "build"
    /\ UNCHANGED inputVars
    /\ UNCHANGED splitVars
    /\ IF epoch >= args.epoch
       THEN /\ pc' = "done"
            /\ UNCHANGED loopVars
       ELSE LET X0 == make_training_set("X", train_filelist, args.patches, epoch)
                y0 == make_training_set("y", train_filelist, args.patches, epoch)
                X1 == IF args.mixup THEN mixup_generator(X0) ELSE X0
                y1 == IF args.mixup THEN mixup_generator(y0) ELSE y0
            IN IF oracle_X # None /\ oracle_y # None /\ Len(The(oracle_X)) > Len(X1)
               THEN Crash       \* IndexError
               ELSE /\ IF oracle_X # None /\ oracle_y # None
                       THEN \E perm \in Permutations_(Len(The(oracle_X))) :
                               /\ X_train' = FancySet(X1, perm, The(oracle_X))
                               /\ y_train' = FancySet(y1, perm, The(oracle_y))
                       ELSE /\ X_train' = X1
                            /\ y_train' = y1
                    /\ instance_loss' = [i \in 1..Len(X1) |-> 0]
                    /\ calls' = <<>>
                    /\ inner_epoch' = 0
                    /\ pc' = IF args.inner_epoch > 0 THEN "train" ELSE "oracle"
                    /\ UNCHANGED <<epoch, oracle_X, oracle_y, model, alpha, best_count,
                                   best_loss, train_loss, valid_loss, log, log_file,
                                   models, wrote, decays, decayed, n_train, n_valid,
                                   n_oracle>>

\* train.py:176-177 and train_inner_epoch
TrainStep ==
    /\ pc = "train"
    /\ UNCHANGED inputVars
    /\ UNCHANGED splitVars
    /\ IF Len(X_train) = 0
       THEN Crash       \* ZeroDivisionError, train.py:71
       ELSE /\ \E perm \in Permutations_(Len(X_train)) :
               \E l \in [1..Len(X_train) -> env.patch_losses] :
                  LET r == train_inner_epoch(Len(X_train), args.batchsize,
                                             instance_loss, perm, l)
                  IN /\ instance_loss' = r.instance_loss
                     /\ train_loss' = Some(r.loss)
                     /\ calls' = Append(calls, l)
            /\ model' = model + 1
            /\ n_train' = n_train + 1
            /\ pc' = "validate"
            /\ UNCHANGED <<epoch, inner_epoch, X_train, y_train, oracle_X, oracle_y,
                           alpha, best_count, best_loss, valid_loss, log, log_file,
                           models, wrote, decays, decayed, n_valid, n_oracle>>

\* train.py:178-179 and valid_inner_epoch
ValidateStep_updates ==
    /\ pc = "validate"
    /\ UNCHANGED inputVars
    /\ UNCHANGED splitVars
    /\ IF Len(X_valid) = 0
       THEN Crash       \* ZeroDivisionError, train.py:89
       ELSE /\ \E v \in env.valid_losses : valid_loss' = Some(v)
            /\ n_valid' = n_valid + 1
            /\ model' = model + 1
            /\ pc' = "log"
            /\ UNCHANGED <<epoch, inner_epoch, X_train, y_train, oracle_X, oracle_y,
                           instance_loss, alpha, best_count, best_loss,
                           train_loss, log, log_file, models, calls, wrote, decays,
                           decayed, n_train, n_oracle>>

ValidateStep ==
    /\ pc = "validate"
    /\ UNCHANGED inputVars
    /\ UNCHANGED splitVars
    /\ IF Len(X_valid) = 0
       THEN Crash       \* ZeroDivisionError, train.py:89
       ELSE /\ \E v \in env.valid_losses : valid_loss' = Some(v)
            /\ n_valid' = n_valid + 1
            /\ pc' = "log"
            /\ UNCHANGED <<epoch, inner_epoch, X_train, y_train, oracle_X, oracle_y,
                           instance_loss, model, alpha, best_count, best_loss,
                           train_loss, log, log_file, models, calls, wrote, decays,
                           decayed, n_train, n_oracle>>

\* train.py:184-185
LogStep_stale ==
    /\ pc = "log"
    /\ log' = Append(log, <<The(train_loss), The(valid_loss)>>)
    /\ log_file' = Some(log)
    /\ pc' = "checkpoint"
    /\ UNCHANGED inputVars
    /\ UNCHANGED splitVars
    /\ UNCHANGED <<epoch, inner_epoch, X_train, y_train, oracle_X, oracle_y,
                   instance_loss, model, alpha, best_count, best_loss, train_loss,
                   valid_loss, models, calls, wrote, decays, decayed, n_train,
                   n_valid, n_oracle>>

LogStep ==
    /\ pc = "log"
    /\ log' = Append(log, <<The(train_loss), The(valid_loss)>>)
    /\ log_file' = Some(log')
    /\ pc' = "checkpoint"
    /\ UNCHANGED inputVars
    /\ UNCHANGED splitVars
    /\ UNCHANGED <<epoch, inner_epoch, X_train, y_train, oracle_X, oracle_y,
                   instance_loss, model, alpha, best_count, best_loss, train_loss,
                   valid_loss, models, calls, wrote, decays, decayed, n_train,
                   n_valid, n_oracle>>

\* train.py:187-193
CheckpointDecision ==
    /\ pc = "checkpoint"
    /\ IF Improved(The(valid_loss), best_loss)
       THEN /\ best_count' = CountAfter(TRUE, best_count)
            /\ best_loss' = The(valid_loss)
            /\ models' = [models EXCEPT ![model_path(epoch)] = Some(model)]
            /\ wrote' = Append(wrote, TRUE)
       ELSE /\ best_count' = CountAfter(FALSE, best_count)
            /\ wrote' = Append(wrote, FALSE)
            /\ UNCHANGED <<best_loss, models>>
    /\ pc' = "decay"
    /\ UNCHANGED inputVars
    /\ UNCHANGED splitVars
    /\ UNCHANGED <<epoch, inner_epoch, X_train, y_train, oracle_X, oracle_y,
                   instance_loss, model, alpha, train_loss, valid_loss, log,
                   log_file, calls, decays, decayed, n_train, n_valid, n_oracle>>

\* train.py:195-199, and the step of the inner loop (train.py:174)
LRDecayDecision ==
    /\ pc = "decay"
    /\ IF DecayDue(epoch, best_count, args.lr_decay_interval)
       THEN /\ best_count' = 0
            /\ alpha' = Decayed(alpha, args.lr_decay, args.lr_min)
            /\ decays' = Append(decays, epoch)
            /\ decayed' = Append(decayed, TRUE)
       ELSE /\ decayed' = Append(decayed, FALSE)
            /\ UNCHANGED <<best_count, alpha, decays>>
    /\ inner_epoch' = inner_epoch + 1
    /\ pc' = IF inner_epoch + 1 < args.inner_epoch THEN "train" ELSE "oracle"
    /\ UNCHANGED inputVars
    /\ UNCHANGED splitVars
    /\ UNCHANGED <<epoch, X_train, y_train, oracle_X, oracle_y, instance_loss, model,
                   best_loss, train_loss, valid_loss, log, log_file, models, calls,
                   wrote, n_train, n_valid, n_oracle>>

\* train.py:201-208 and the step of the epoch loop (train.py:159)
EpochEnd ==
    /\ pc = "oracle"
    /\ IF OracleEnabled(args.oracle_rate)
       THEN LET mean == [i \in 1..Len(instance_loss) |->
                            instance_loss[i] \div args.inner_epoch]
            IN /\ instance_loss' = mean
               /\ \E rank \in OracleRankings(mean) :
                  \E keep \in OracleKeeps(Len(mean), args.oracle_rate,
                                          args.oracle_drop_rate) :
                     LET r == get_oracle_data(X_train, y_train, mean, rank, keep)
                     IN /\ oracle_X' = Some(r.X)
                        /\ oracle_y' = Some(r.y)
               /\ n_oracle' = n_oracle + 1
       ELSE UNCHANGED <<instance_loss, oracle_X, oracle_y, n_oracle>>
    /\ X_train' = <<>>
    /\ y_train' = <<>>
    /\ epoch' = epoch + 1
    /\ pc' = "build"
    /\ UNCHANGED inputVars
    /\ UNCHANGED splitVars
    /\ UNCHANGED <<inner_epoch, model, alpha, best_count, best_loss, train_loss,
                   valid_loss, log, log_file, models, calls, wrote, decays, decayed,
                   n_train, n_valid>>

Next ==
    \/ Split
    \/ BuildTrainingSet
    \/ TrainStep
    \/ ValidateStep
    \/ LogStep
    \/ CheckpointDecision
    \/ LRDecayDecision
    \/ EpochEnd

----------------------------------------------------------------------------
(* Runs of main() *)

MaxEpoch == 3       \* --epoch
MaxInner == 2       \* --inner_epoch
MaxSteps == 6       \* inner-epoch steps of a run, epoch * inner_epoch
MaxInterval == 2    \* --lr_decay_interval
MaxPatches == 3     \* --patches
LongEpochs == 4     \* --epoch of the long runs

\* per-instance losses are multiples of LossUnit, which every batch size, patch
\* count and inner-epoch count of the model divides: the means are exact
LossUnit == 3 * 4 * 5

Rate(n, d) == [num |-> n, den |-> d]

\* a corpus of n pairs, <stem> of mix_dir paired with <stem> of inst_dir
CorpusOf(n) == Listing(1, n, FALSE)

\* learning rate, its floor and its decay factor
LrSettings ==
    {[lr |-> 8, min |-> 5, decay |-> Rate(1, 2)],
     [lr |-> 8, min |-> 1, decay |-> Rate(1, 2)],
     [lr |-> 2, min |-> 5, decay |-> Rate(3, 2)]}

RunLengths ==
    {<<e, i>> \in (0..MaxEpoch) \X (1..MaxInner) : e * i <= MaxSteps}

\* runs that exercise checkpointing and learning-rate decay
DecayRuns ==
    {[args |-> [BaseArgs EXCEPT !.epoch = r[1], !.inner_epoch = r[2],
                    !.lr_decay_interval = d, !.learning_rate = s.lr,
                    !.lr_min = s.min, !.lr_decay = s.decay,
                    !.validation_rate = Rate(1, 2)],
      env |-> [patch_losses |-> {LossUnit}, valid_losses |-> 0..MaxLoss]] :
        r \in RunLengths, d \in 1..MaxInterval, s \in LrSettings}

\* runs that exercise mixup and the oracle
OracleRuns ==
    {[args |-> [BaseArgs EXCEPT !.epoch = 2, !.inner_epoch = 1, !.patches = 2,
                    !.oracle_rate = o, !.mixup = m,
                    !.validation_rate = Rate(1, 2)],
      env |-> [patch_losses |-> {0, LossUnit}, valid_losses |-> {0, 1}]] :
        o \in {Rate(0, 1), Rate(1, 2)}, m \in BOOLEAN}

\* long runs: several decays in the epochs from 2 on, lr_decay_interval steps
\* apart
LongRuns ==
    {[args |-> [BaseArgs EXCEPT !.epoch = LongEpochs, !.inner_epoch = 2,
                    !.lr_decay_interval = d, !.validation_rate = Rate(1, 2)],
      env |-> [patch_losses |-> {LossUnit}, valid_losses |-> {0, 1}]] :
        d \in 1..MaxInterval}

Init ==
    /\ \E n \in 1..2 :
        /\ mix_dir = CorpusOf(n)
        /\ inst_dir = CorpusOf(n)
    /\ \E run \in DecayRuns \cup OracleRuns \cup LongRuns :
        /\ args = run.args
        /\ env = run.env
    /\ InitRun

Spec == Init /\ [][Next]_vars

\* runs that exercise the accumulator of train_inner_epoch
AccumRuns ==
    {[args |-> [BaseArgs EXCEPT !.epoch = r[1], !.inner_epoch = r[2],
                    !.patches = MaxPatches, !.batchsize = bs,
                    !.validation_rate = Rate(1, 2)],
      env |-> [patch_losses |-> {0, LossUnit}, valid_losses |-> {0}]] :
        r \in {<<1, MaxInner>>, <<2, 1>>}, bs \in 1..(MaxPatches + 1)}

InitAccum ==
    /\ mix_dir = CorpusOf(2)
    /\ inst_dir = CorpusOf(2)
    /\ \E run \in AccumRuns :
        /\ args = run.args
        /\ env = run.env
    /\ InitRun

SpecAccum == InitAccum /\ [][Next]_vars

\* The process is killed.  The files stay as they are, except the one being
\* written: np.save (train.py:185) and save_npz (train.py:191-193) rewrite a file
\* in place, so a kill during the call leaves the file as it was (the call had
\* not opened it yet), unreadable (None: opened for writing, not fully
\* written), or new (written in full).
Kill ==
    /\ pc \in {"build", "train", "validate", "log", "checkpoint", "decay", "oracle"}
    /\ pc' = "killed"
    /\ IF pc = "log"
       THEN /\ log_file' \in {log_file, None,
                              Some(Append(log, <<The(train_loss), The(valid_loss)>>))}
            /\ UNCHANGED models
       ELSE IF pc = "checkpoint" /\ Improved(The(valid_loss), best_loss)
       THEN /\ models' \in {models,
                            [models EXCEPT ![model_path(epoch)] = None],
                            [models EXCEPT ![model_path(epoch)] = Some(model)]}
            /\ UNCHANGED log_file
       ELSE UNCHANGED <<log_file, models>>
    /\ UNCHANGED inputVars
    /\ UNCHANGED splitVars
    /\ UNCHANGED <<epoch, inner_epoch, X_train, y_train, oracle_X, oracle_y,
                   instance_loss, model, alpha, best_count, best_loss, train_loss,
                   valid_loss, log, calls, wrote, decays, decayed, n_train, n_valid,
                   n_oracle>>

NextKill == Next \/ Kill

SpecKill == Init /\ [][NextKill]_vars

\* runs that exercise the injection of the oracle set: an oracle set of one
\* patch (a prefix of one) or of more (the whole set ranked, half of it dropped
\* or none);
\* the losses of the patches are equal, so that the ranking can be any order
InjectRunsAll ==
    {[args |-> [BaseArgs EXCEPT !.epoch = MaxEpoch, !.inner_epoch = i,
                    !.patches = MaxPatches, !.oracle_rate = o,
                    !.oracle_drop_rate = d, !.mixup = m,
                    !.validation_rate = Rate(1, 2)],
      env |-> [patch_losses |-> {LossUnit}, valid_losses |-> {0}]] :
        o \in {Rate(1, MaxPatches), Rate(1, 1)},
        d \in {Rate(0, 1), Rate(1, 2)}, m \in BOOLEAN, i \in {1, MaxInner}}

\* mixup is exercised with one inner epoch only
InjectRuns ==
    {run \in InjectRunsAll : ~(run.args.mixup /\ run.args.inner_epoch > 1)}

InitInject ==
    /\ mix_dir = CorpusOf(2)
    /\ inst_dir = CorpusOf(2)
    /\ \E run \in InjectRuns :
        /\ args = run.args
        /\ env = run.env
    /\ InitRun

SpecInject == InitInject /\ [][Next]_vars

----------------------------------------------------------------------------
(* Properties of the training loop *)

InnerLoop == pc \in {"train", "validate", "log", "checkpoint", "decay", "oracle"}
Ended == pc \in {"done", "crashed"}

\* the validation loss of the k-th inner-epoch step of the run
ValidLossOf(k) == log[k][2]

\* C4: a checkpoint is written at an inner-epoch step iff the validation loss of
\* that step is strictly lower than the validation loss of every earlier step of
\* the run (so the first step writes); a step that writes leaves the parameters
\* it validated in the file of its epoch.
C4_CheckpointIffBest ==
    /\ \A k \in 1..Len(wrote) :
          wrote[k] <=> \A j \in 1..(k - 1) : ValidLossOf(k) < ValidLossOf(j)
    /\ pc = "decay" => (wrote[Len(wrote)] <=> models[epoch] = Some(model))

C4_Witness ==
    /\ Len(wrote) >= 3
    /\ wrote[1] /\ ~wrote[2] /\ wrote[3]

\* C5: once a learning-rate decay has fired, the learning rate is at or above
\* lr_min.
C5_DecayAboveFloor == decays # <<>> => alpha >= args.lr_min

C5_Witness ==
    /\ decays # <<>>
    /\ alpha = args.lr_min
    /\ (args.learning_rate * args.lr_decay.num) \div args.lr_decay.den < args.lr_min

\* C6: no learning-rate decay fires in epoch 0 or epoch 1, and the learning rate
\* at the start of epoch 2 is the initial one.
C6_NoEarlyDecay ==
    /\ \A k \in 1..Len(decays) : decays[k] >= 2
    /\ (epoch < 2 \/ (epoch = 2 /\ pc = "build")) => alpha = args.learning_rate

C6_Witness ==
    /\ epoch = 2 /\ pc = "build" /\ args.epoch > 2
    /\ best_count >= args.lr_decay_interval

\* C8: with oracle_rate = 0 get_oracle_data is never called, the oracle set stays
\* absent, and in the inner-epoch loop every entry of the training set is the
\* patch built for this epoch at its own index.
C8_OracleOff ==
    args.oracle_rate.num = 0 =>
        /\ n_oracle = 0
        /\ oracle_X = None /\ oracle_y = None
        /\ InnerLoop =>
            /\ Len(X_train) = args.patches * Len(train_filelist)
            /\ Len(y_train) = Len(X_train)
            /\ \A i \in 1..Len(X_train) :
                /\ X_train[i] = [kind |-> "X", epoch |-> epoch, idx |-> i,
                                 mixed |-> args.mixup]
                /\ y_train[i] = [kind |-> "y", epoch |-> epoch, idx |-> i,
                                 mixed |-> args.mixup]

C8_Witness ==
    /\ args.oracle_rate.num = 0
    /\ epoch >= 1 /\ pc = "validate"
    /\ Len(X_train) >= 2

\* C10: the run ends only after exactly `epoch` epochs of exactly `inner_epoch`
\* inner-epoch steps each, whatever the losses, best_count and the learning rate.
C10_RunsAllEpochs ==
    Ended =>
        /\ pc = "done"
        /\ epoch = args.epoch
        /\ n_train = args.epoch * args.inner_epoch
        /\ n_valid = args.epoch * args.inner_epoch

\* What does hold of the length of a run: a run that is not cut short by an
\* exception ends after exactly epoch * inner_epoch steps, an exception is raised
\* only when there is no training patch or no validation patch, and under weak
\* fairness of the loop every run ends.
RunsAllEpochsUnlessCrashed ==
    /\ pc = "done" =>
        /\ epoch = args.epoch
        /\ n_train = args.epoch * args.inner_epoch
        /\ n_valid = args.epoch * args.inner_epoch
    /\ pc = "crashed" => (train_filelist = <<>> \/ val_filelist = <<>>)

FairSpec == Spec /\ WF_vars(Next)
Terminates == <>Ended

\* C7: in the inner-epoch loop, after K calls of train_inner_epoch in this epoch,
\* slot i of instance_loss is the sum of the K losses computed for patch i (all
\* zeros before the first call of the epoch).
C7_Accumulates ==
    InnerLoop =>
        /\ Len(calls) = inner_epoch +
              (IF pc \in {"validate", "log", "checkpoint", "decay"} THEN 1 ELSE 0)
        /\ Len(instance_loss) = Len(X_train)
        /\ \A i \in 1..Len(instance_loss) :
              instance_loss[i] = SumSeq([k \in 1..Len(calls) |-> calls[k][i]])

C7_Witness ==
    /\ pc = "oracle"
    /\ Len(calls) = 2
    /\ args.batchsize = 2
    /\ \E i, j \in 1..Len(instance_loss) :
          /\ instance_loss[i] = 2 * LossUnit
          /\ instance_loss[j] = LossUnit
          /\ calls[1][j] = 0

----------------------------------------------------------------------------
(* The log, the learning rate and the counters over a whole run *)

\* C11: every inner-epoch step appends exactly one row to the log, after its
\* validation and before its checkpoint decision and its learning-rate decision;
\* the row is the (train_loss, valid_loss) of the step, the rows before it are
\* kept as they were, and the log file holds the whole log in memory.
C11_LogAppendedAndSaved ==
    /\ [](/\ Len(log) = n_valid - (IF pc = "log" THEN 1 ELSE 0)
          /\ Len(wrote) = Len(log) - (IF pc = "checkpoint" THEN 1 ELSE 0)
          /\ Len(decayed) = Len(log) - (IF pc \in {"checkpoint", "decay"} THEN 1 ELSE 0)
          /\ log_file = (IF log = <<>> THEN None ELSE Some(log)))
    /\ [][log' # log => log' = Append(log, <<The(train_loss), The(valid_loss)>>)]_vars

C11_Witness ==
    /\ pc = "checkpoint"
    /\ Len(log) = 3 /\ Len(wrote) = 2
    /\ log_file = Some(log)
    /\ log[1][2] # log[2][2] /\ log[2][2] # log[3][2]

\* C12: at the learning-rate decision of a step the rate decays iff the epoch
\* index is above 1 and best_count, as the checkpoint decision of the step left
\* it, is at least lr_decay_interval; a decay sets the rate to the larger of
\* rate * lr_decay and lr_min and best_count to 0; otherwise the decision leaves
\* both as they are.
C12_DecayRule ==
    [][pc = "decay" =>
          /\ Len(wrote) = Len(decayed) + 1
          /\ IF epoch > 1 /\ best_count >= args.lr_decay_interval
             THEN /\ decayed' = Append(decayed, TRUE)
                  /\ alpha' = Max((alpha * args.lr_decay.num) \div args.lr_decay.den,
                                  args.lr_min)
                  /\ best_count' = 0
             ELSE /\ decayed' = Append(decayed, FALSE)
                  /\ alpha' = alpha
                  /\ best_count' = best_count]_vars

C12_Witness ==
    /\ pc \in {"train", "oracle"}
    /\ Len(decayed) >= 2
    /\ decayed[Len(decayed)] /\ ~decayed[Len(decayed) - 1]
    /\ epoch >= 2
    /\ best_count = 0
    /\ args.lr_min < alpha /\ alpha < args.learning_rate

\* step k of the run improved: its validation loss is below that of every
\* earlier step
ImprovedAt(k) == \A j \in 1..(k - 1) : ValidLossOf(k) < ValidLossOf(j)

\* the learning rate decayed at step k
DecayedAt(k) == k <= Len(decayed) /\ decayed[k]

\* the largest member of a set of step numbers, 0 for the empty set
LastOf(S) == IF S = {} THEN 0 ELSE CHOOSE k \in S : \A j \in S : j <= k

\* C13 as claimed: after every inner-epoch step best_count is the number of
\* steps completed since the last step that improved on best_loss.
C13_CountsSinceImprovement ==
    (Len(decayed) = Len(log) /\ Len(log) >= 1) =>
        best_count = Len(log) - LastOf({k \in 1..Len(log) : ImprovedAt(k)})

\* C13 amended: once the checkpoint decision of a step is made, best_count is
\* the number of steps completed since the last step that improved on best_loss
\* or decayed the learning rate, whichever came later.
C13_CountsSinceReset ==
    (Len(wrote) = Len(log) /\ Len(log) >= 1) =>
        best_count =
            Len(log) - LastOf({k \in 1..Len(log) : ImprovedAt(k) \/ DecayedAt(k)})

C13_Witness ==
    /\ Len(decayed) = Len(log)
    /\ best_count = 1
    /\ Len(log) - LastOf({k \in 1..Len(log) : ImprovedAt(k)}) = 3
    /\ DecayedAt(Len(log) - 1)

\* the smallest validation loss among the first n steps of the run, +infinity
\* for n = 0
MinLossOf(n) ==
    LET S == {ValidLossOf(k) : k \in 1..n} \cup {Inf}
    IN CHOOSE v \in S : \A w \in S : v <= w

\* C14: best_loss is +infinity before the first checkpoint decision, never
\* increases, and after every checkpoint decision is the smallest validation
\* loss logged by the steps so far.
C14_BestLossIsMinimum ==
    /\ [](best_loss = MinLossOf(Len(wrote)))
    /\ [][best_loss' <= best_loss]_vars

C14_Witness ==
    /\ Len(wrote) = 3 /\ pc = "decay"
    /\ ValidLossOf(1) > ValidLossOf(3) /\ ValidLossOf(2) > ValidLossOf(1)
    /\ best_loss = ValidLossOf(3)

----------------------------------------------------------------------------
(* The injection of the oracle set *)

\* the patch make_training_set and mixup leave at index i in this epoch
Fresh(kind, i) == [kind |-> kind, epoch |-> epoch, idx |-> i, mixed |-> args.mixup]

\* the oracle set in hand, empty when there is none
OracleXs == IF oracle_X = None THEN <<>> ELSE The(oracle_X)
OracleYs == IF oracle_y = None THEN <<>> ELSE The(oracle_y)

\* the positions of the training set that do not hold their fresh patch
Replaced ==
    {i \in 1..Len(X_train) : X_train[i] # Fresh("X", i) \/ y_train[i] # Fresh("y", i)}

\* C15: in the inner-epoch loop of every epoch the training set has the length
\* N of the freshly built one; as many positions as the oracle set has patches
\* are replaced (none in epoch 0); every oracle patch is at exactly one position,
\* its mixture and its instrumental at the same one; every other position holds
\* its fresh patch.
C15_InjectionOverwrites ==
    InnerLoop =>
        /\ Len(X_train) = args.patches * Len(train_filelist)
        /\ Len(y_train) = Len(X_train)
        /\ epoch = 0 => Replaced = {}
        /\ Cardinality(Replaced) = Len(OracleXs)
        /\ \A j \in 1..Len(OracleXs) :
              /\ Cardinality({i \in 1..Len(X_train) : X_train[i] = OracleXs[j]}) = 1
              /\ \A i \in 1..Len(X_train) :
                    X_train[i] = OracleXs[j] <=> y_train[i] = OracleYs[j]
        /\ \A i \in Replaced : \E j \in 1..Len(OracleXs) : X_train[i] = OracleXs[j]

C15_Witness ==
    /\ pc = "train" /\ inner_epoch = 0
    /\ epoch = 2
    /\ Len(X_train) = 3
    /\ Len(OracleXs) = 2
    /\ X_train[1] = OracleXs[2] /\ X_train[2] = OracleXs[1]
    /\ OracleXs[1].epoch = 0 /\ OracleXs[2].epoch = 1

\* C16: when the oracle set is smaller than the training set about to be built,
\* every index of the training set is a position the injection can write an
\* oracle patch to.
C16_AnyPositionPossible ==
    (pc = "build" /\ epoch < args.epoch /\ oracle_X # None
        /\ 0 < Len(OracleXs) /\ Len(OracleXs) < args.patches * Len(train_filelist)) =>
        \A i \in 1..(args.patches * Len(train_filelist)) :
            ENABLED (BuildTrainingSet /\ X_train'[i] \in Range(OracleXs))

\* What the injection does reach: with an oracle set of k patches the positions
\* it can write are the first k of the training set, and no other.
InjectsFirstPositions ==
    (pc = "build" /\ epoch < args.epoch /\ oracle_X # None) =>
        \A i \in 1..(args.patches * Len(train_filelist)) :
            i <= Len(OracleXs) <=>
                ENABLED (BuildTrainingSet /\ X_train'[i] \in Range(OracleXs))

----------------------------------------------------------------------------
(* Which step changes what *)

\* C17 as claimed: the model parameters change only in TrainStep, the learning
\* rate only in LRDecayDecision, and the instance-loss accumulator, once zeroed
\* at the head of the epoch, only in TrainStep; the oracle selection at the end
\* of the epoch leaves the accumulator as it is.
C17_OwnersOnly ==
    [][/\ model' # model => pc = "train"
       /\ alpha' # alpha => pc = "decay"
       /\ instance_loss' # instance_loss => pc \in {"build", "train"}
       /\ pc = "oracle" => instance_loss' = instance_loss]_vars

\* C17 amended: the model parameters change only in TrainStep and the learning
\* rate only in LRDecayDecision; the accumulator is zeroed at the head of the
\* epoch, changed by TrainStep, and, when oracle_rate > 0, divided in place by
\* inner_epoch at the end of the epoch, before the oracle selection reads it.
C17_OwnersAndMean ==
    [][/\ model' # model => pc = "train"
       /\ alpha' # alpha => pc = "decay"
       /\ instance_loss' # instance_loss => pc \in {"build", "train", "oracle"}
       /\ (pc = "build" /\ pc' # "done") =>
            \A i \in 1..Len(instance_loss') : instance_loss'[i] = 0
       /\ pc = "oracle" =>
            IF args.oracle_rate.num > 0
            THEN /\ Len(instance_loss') = Len(instance_loss)
                 /\ \A i \in 1..Len(instance_loss) :
                       instance_loss'[i] * args.inner_epoch = instance_loss[i]
            ELSE instance_loss' = instance_loss]_vars

C17_Witness ==
    /\ pc = "build" /\ epoch = MaxEpoch
    /\ args.inner_epoch = 2
    /\ alpha < args.learning_rate
    /\ model = n_train /\ n_train = 2 * MaxEpoch
    /\ \A i \in 1..Len(instance_loss) : instance_loss[i] = LossUnit
    /\ calls[1][1] + calls[2][1] = 2 * LossUnit

----------------------------------------------------------------------------
(* The files after a kill *)

\* the steps of the run that belong to epoch e
StepsOf(e) == (e * args.inner_epoch + 1)..((e + 1) * args.inner_epoch)

\* the content the checkpoint file of a finished epoch e was left with: the
\* parameters of its last improving step (step k leaves parameters k), none
\* when no step of the epoch improved
CheckpointOf(e) ==
    LET S == {k \in StepsOf(e) : wrote[k]}
    IN IF S = {} THEN None ELSE Some(LastOf(S))

\* C18: after a kill at any point, the checkpoint file of every earlier epoch
\* is as that epoch left it, and the log file holds, in order, the row of every
\* step completed before the current epoch.
C18_EarlierEpochsSurviveKill ==
    pc = "killed" =>
        /\ \A e \in 0..(epoch - 1) : models[e] = CheckpointOf(e)
        /\ epoch * args.inner_epoch > 0 =>
              /\ log_file # None
              /\ Len(The(log_file)) >= epoch * args.inner_epoch
              /\ \A k \in 1..(epoch * args.inner_epoch) : The(log_file)[k] = log[k]

\* What does survive a kill: the checkpoint files of the earlier epochs.
EarlierCheckpointsSurviveKill ==
    pc = "killed" => \A e \in 0..(epoch - 1) : models[e] = CheckpointOf(e)

----------------------------------------------------------------------------
(* Decays, improvements and checkpoints over a whole run *)

\* C19: with lr_decay_interval >= 1, no learning-rate decay fires at a step
\* whose validation loss improved on best_loss, and two decays are at least
\* lr_decay_interval steps apart.
C19_DecaysApart ==
    args.lr_decay_interval >= 1 =>
        /\ \A k \in 1..Len(decayed) : decayed[k] => ~ImprovedAt(k)
        /\ \A j, k \in 1..Len(decayed) :
              (j < k /\ decayed[j] /\ decayed[k]) => k - j >= args.lr_decay_interval

C19_Witness ==
    /\ args.lr_decay_interval = 2
    /\ Len(decayed) = 7
    /\ DecayedAt(5) /\ DecayedAt(7)
    /\ ImprovedAt(2)

\* the checkpoint file of the highest epoch index, None when there is no file
LatestCheckpoint ==
    LET E == {e \in DOMAIN models : models[e] # None}
    IN IF E = {} THEN None ELSE models[LastOf(E)]

\* C20: once the first checkpoint decision is made, the checkpoint file of the
\* highest epoch index holds the parameters validated at the most recent
\* improving step, whose loss is best_loss (step k leaves parameters k); and a
\* step writes to no checkpoint file but that of its own epoch.
C20_LatestCheckpointIsBest ==
    /\ [](Len(wrote) >= 1 =>
            LET best == LastOf({k \in 1..Len(wrote) : ImprovedAt(k)})
            IN /\ LatestCheckpoint = Some(best)
               /\ ValidLossOf(best) = best_loss)
    /\ [][\A e \in DOMAIN models : models'[e] # models[e] => e = epoch]_vars

C20_Witness ==
    /\ pc = "checkpoint"
    /\ args.inner_epoch = 2 /\ epoch = 1
    /\ Len(wrote) = 3
    /\ ImprovedAt(1) /\ ImprovedAt(2) /\ ImprovedAt(3)
    /\ models[0] = Some(2) /\ models[1] = Some(3)
    /\ model = 4

====
